---- MODULE Spec2Model ----
(***************************************************************************)
(* Model of app.py: one top-to-bottom run of the dashboard script          *)
(* (fetch -> metrics -> sanitize -> shift -> decompose -> forecast ->      *)
(* summary -> success -> footer) and of fit_sarima_model.                  *)
(*                                                                         *)
(* Floating-point numbers are modelled as extended rationals: a record     *)
(* [n, d] with d >= 0 in lowest terms; d = 0 encodes the IEEE specials     *)
(* (0/0 is NaN, 1/0 is +inf, -1/0 is -inf).  Rounding is not modelled.     *)
(***************************************************************************)
EXTENDS Integers, Sequences, FiniteSets, TLC

\* ------------------------------------------------------------------------
\* Bounds of the model
\* ------------------------------------------------------------------------

\* the fetched table is a concatenation of at most MaxBlocks runs of equal rows
MaxBlocks == 2

\* largest forecast_days argument tried on fit_sarima_model in isolation
MaxHorizon == 3

\* lengths of one run of equal rows
BlockLens == {1, 15, 30}

\* finite Close values the data source may deliver (NaN is added separately)
CloseInputs == {-1, 0, 100}

\* ------------------------------------------------------------------------
\* Program constants
\* ------------------------------------------------------------------------

\* seasonal_decompose needs two periods of 30
MinDecompositionLen == 60

\* rows needed before the SARIMA section runs
MinForecastRows == 30

\* forecast_days passed by the script
ForecastDays == 30

\* window of the fallback moving average, series[-10:]
FallbackWindow == 10

\* confidence_width thresholds of the "High" and "Medium" buckets
HighWidth == 10

MediumWidth == 20

\* ------------------------------------------------------------------------
\* Floats
\* ------------------------------------------------------------------------

Sign(x) == IF x > 0 THEN 1 ELSE IF x < 0 THEN -1 ELSE 0

Abs(x) == IF x < 0 THEN -x ELSE x

RECURSIVE GCD(_, _)
GCD(a, b) == IF b = 0 THEN a ELSE GCD(b, a % b)

Rat(n, d) ==
    IF d = 0 THEN [n |-> Sign(n), d |-> 0]
    ELSE LET g == GCD(Abs(n), Abs(d))
             s == Sign(d)
         IN  [n |-> (s * n) \div g, d |-> (s * d) \div g]

Num(i) == [n |-> i, d |-> 1]

NaN == [n |-> 0, d |-> 0]

IsNaN(x) == x.n = 0 /\ x.d = 0

IsZero(x) == x.n = 0 /\ x.d # 0

FNeg(a) == [n |-> -a.n, d |-> a.d]

FAdd(a, b) ==
    IF IsNaN(a) \/ IsNaN(b) THEN NaN
    ELSE IF a.d = 0 /\ b.d = 0 THEN (IF a.n = b.n THEN a ELSE NaN)
    ELSE IF a.d = 0 THEN a
    ELSE IF b.d = 0 THEN b
    ELSE Rat(a.n * b.d + b.n * a.d, a.d * b.d)

FSub(a, b) == FAdd(a, FNeg(b))

FMul(a, b) == Rat(a.n * b.n, a.d * b.d)

\* IEEE division as numpy performs it: x/0 is an infinity or NaN, no exception
FDiv(a, b) == Rat(a.n * b.d, a.d * b.n)

\* comparisons with NaN are false
FLt(a, b) == ~IsNaN(a) /\ ~IsNaN(b) /\ a.n * b.d < b.n * a.d

FLe(a, b) == ~IsNaN(a) /\ ~IsNaN(b) /\ a.n * b.d <= b.n * a.d

\* ------------------------------------------------------------------------
\* pandas helpers
\* ------------------------------------------------------------------------

\* Series.dropna(): the non-missing values, order kept
dropna(s) == SelectSeq(s, LAMBDA x : ~IsNaN(x))

\* Series.min() of a non-empty series without missing values
SeriesMin(s) ==
    CHOOSE m \in {s[i] : i \in 1..Len(s)} : \A j \in 1..Len(s) : FLe(m, s[j])

\* the sum of the first k values
RECURSIVE PrefixSum(_, _)
PrefixSum(s, k) == IF k = 0 THEN Num(0) ELSE FAdd(PrefixSum(s, k - 1), s[k])

SeriesSum(s) == PrefixSum(s, Len(s))

\* Series.mean(): NaN for an empty series (0/0)
SeriesMean(s) == FDiv(SeriesSum(s), Num(Len(s)))

\* series[-k:]
LastK(s, k) == IF Len(s) <= k THEN s ELSE SubSeq(s, Len(s) - k + 1, Len(s))

\* pd.Series([v] * k)
Repeat(v, k) == [i \in 1..k |-> v]

\* ------------------------------------------------------------------------
\* Inputs: what yf.download and the statsmodels calls may hand back
\* ------------------------------------------------------------------------

CloseCells == {Num(v) : v \in CloseInputs} \cup {NaN}

RECURSIVE TablesUpTo(_)
TablesUpTo(k) ==
    IF k = 0 THEN { << >> }
    ELSE LET prev == TablesUpTo(k - 1)
         IN  prev \cup { t \o Repeat(c, len) :
                           t \in prev, c \in CloseCells, len \in BlockLens }

\* the Close columns the data source may deliver
CloseColumns == TablesUpTo(MaxBlocks)

\* forecast_days handed to fit_sarima_model when it is exercised on its own
Horizons == (1..MaxHorizon) \cup {ForecastDays}

\* series handed to fit_sarima_model when it is exercised on its own
FitSeries == { dropna(t) : t \in CloseColumns }

\* What get_forecast may return on the primary path: a point forecast rising
\* by `slope` a step to end at `last`, and an interval of half width `half`
\* around it.
ModelForecasts ==
    [last : {0, 100}, slope : {1}, half : {4, 8}]

\* outcome of the try block of fit_sarima_model: the exception raised by
\* SARIMAX / fit / get_forecast, or the forecast obtained
FitOutcomes ==
    [raised : {TRUE}, e : {"LinAlgError"},
     fc : {[last |-> 0, slope |-> 0, half |-> 0]}]
    \cup [raised : {FALSE}, e : {"none"}, fc : ModelForecasts]

\* ------------------------------------------------------------------------
\* State of one run of the script
\* ------------------------------------------------------------------------

VARIABLES
    pc,                   \* the section of the script about to execute
    data,                 \* the downloaded table: its Date and Close columns
    close_2d,             \* data['Close'] is an (n,1) DataFrame, not a Series
    current_price_val,
    pct_change_val,
    close_series,
    result,               \* outcome of seasonal_decompose
    fit_called,           \* fit_sarima_model has been entered
    fit_exception,        \* the exception its try block raised, or "none"
    forecast_days,
    forecast_values,
    confidence_intervals,
    sarima_model,
    future_df,
    last_pred_price,
    pred_change_val,
    confidence_width,
    confidence_level,
    messages,             \* what st.error / st.warning / the success box showed
    unhandled             \* the exception that ended the run, or "none"

vars == << pc, data, close_2d, current_price_val, pct_change_val, close_series,
           result, fit_called, fit_exception, forecast_days, forecast_values,
           confidence_intervals, sarima_model, future_df, last_pred_price,
           pred_change_val, confidence_width, confidence_level, messages,
           unhandled >>

Msg(level, msg, need, got, e) ==
    [level |-> level, msg |-> msg, need |-> need, got |-> got, e |-> e]

\* a name that has not been assigned yet
NoIntervals == [lower |-> << >>, upper |-> << >>]

NoFrame == [Date |-> << >>, Predicted_Close |-> << >>,
            Lower_CI |-> << >>, Upper_CI |-> << >>]

NoTable == [Date |-> << >>, Close |-> << >>]

Unassigned ==
    /\ current_price_val = NaN
    /\ pct_change_val = NaN
    /\ result = "unset"
    /\ fit_called = FALSE
    /\ fit_exception = "none"
    /\ forecast_values = << >>
    /\ confidence_intervals = NoIntervals
    /\ sarima_model = "unset"
    /\ future_df = NoFrame
    /\ last_pred_price = NaN
    /\ pred_change_val = NaN
    /\ confidence_width = NaN
    /\ confidence_level = "unset"
    /\ messages = << >>
    /\ unhandled = "none"

Init ==
    /\ pc = "fetch"
    /\ data = NoTable
    /\ close_2d = FALSE
    /\ close_series = << >>
    /\ forecast_days = ForecastDays
    /\ Unassigned

\* ------------------------------------------------------------------------
\* The script, section by section
\* ------------------------------------------------------------------------

\* data = yf.download(ticker, start=start_date, end=end_date)
Fetch(close, frame) ==
    /\ pc = "fetch"
    /\ UNCHANGED unhandled
    /\ data' = [Date |-> [i \in 1..Len(close) |-> i], Close |-> close]
    /\ close_2d' = frame
    /\ pc' = "check_empty"
    /\ UNCHANGED << current_price_val, pct_change_val, close_series, result,
                    fit_called, fit_exception, forecast_days, forecast_values,
                    confidence_intervals, sarima_model, future_df,
                    last_pred_price, pred_change_val, confidence_width,
                    confidence_level, messages >>

\* the empty-table branch without its else: the script carries on
NoData_FallsThrough ==
    /\ pc = "check_empty"
    /\ Len(data.Close) = 0
    /\ messages' = Append(messages, Msg("error", "no_data", 0, 0, "none"))
    /\ pc' = "shift"
    /\ UNCHANGED << data, close_2d, current_price_val, pct_change_val,
                    close_series, result, fit_called, fit_exception,
                    forecast_days, forecast_values, confidence_intervals,
                    sarima_model, future_df, last_pred_price, pred_change_val,
                    confidence_width, confidence_level, unhandled >>

\* if data.empty: st.error(...)   -- nothing else but the footer runs
NoData ==
    /\ pc = "check_empty"
    /\ UNCHANGED unhandled
    /\ Len(data.Close) = 0
    /\ messages' = Append(messages, Msg("error", "no_data", 0, 0, "none"))
    /\ pc' = "footer"
    /\ UNCHANGED << data, close_2d, current_price_val, pct_change_val,
                    close_series, result, fit_called, fit_exception,
                    forecast_days, forecast_values, confidence_intervals,
                    sarima_model, future_df, last_pred_price, pred_change_val,
                    confidence_width, confidence_level >>

\* the reference price of the metric cards: the last row of the raw column
CurrentPrice(close) == IF Len(close) > 0 THEN close[Len(close)] ELSE Num(0)

\* total return over the raw column; the division is guarded
TotalReturn(close) ==
    IF Len(close) > 0
    THEN LET first_price == close[1]
             last_price == close[Len(close)]
             price_change_val == FSub(last_price, first_price)
         IN  IF ~IsZero(first_price)
             THEN FMul(FDiv(price_change_val, first_price), Num(100))
             ELSE Num(0)
    ELSE Num(0)

\* else: ... the four metric cards
Metrics ==
    /\ pc = "check_empty"
    /\ UNCHANGED unhandled
    /\ Len(data.Close) # 0
    /\ current_price_val' = CurrentPrice(data.Close)
    /\ pct_change_val' = TotalReturn(data.Close)
    /\ pc' = "sanitize"
    /\ UNCHANGED << data, close_2d, close_series, result, fit_called,
                    fit_exception, forecast_days, forecast_values,
                    confidence_intervals, sarima_model, future_df,
                    last_pred_price, pred_change_val, confidence_width,
                    confidence_level, messages >>

\* close_series = data['Close']; squeeze() if it is a DataFrame; dropna().
\* squeeze() of a one-row, one-column frame is a scalar, which has no
\* dropna(): the AttributeError is not caught.
Sanitize ==
    /\ pc = "sanitize"
    /\ IF close_2d /\ Len(data.Close) = 1
       THEN /\ pc' = "crashed"
            /\ unhandled' = "AttributeError"
            /\ UNCHANGED close_series
       ELSE /\ close_series' = dropna(data.Close)
            /\ pc' = "shift"
            /\ UNCHANGED unhandled
    /\ UNCHANGED << data, close_2d, current_price_val, pct_change_val, result,
                    fit_called, fit_exception, forecast_days, forecast_values,
                    confidence_intervals, sarima_model, future_df,
                    last_pred_price, pred_change_val, confidence_width,
                    confidence_level, messages >>

\* np.any(close_series.values <= 0)
AnyNonPositive(s) == \E i \in 1..Len(s) : FLe(s[i], Num(0))

\* the shift without its + 1
PositivityShift_NoPlusOne(s) ==
    IF Len(s) > 0 /\ AnyNonPositive(s)
    THEN LET m == SeriesMin(s)
         IN  [i \in 1..Len(s) |-> FSub(s[i], m)]
    ELSE s

\* close_series - close_series.min() + 1, when some value is <= 0
PositivityShift(s) ==
    IF Len(s) > 0 /\ AnyNonPositive(s)
    THEN LET m == SeriesMin(s)
         IN  [i \in 1..Len(s) |-> FAdd(FSub(s[i], m), Num(1))]
    ELSE s

Shift ==
    /\ pc = "shift"
    /\ UNCHANGED unhandled
    /\ close_series' = PositivityShift(close_series)
    /\ pc' = "decompose"
    /\ UNCHANGED << data, close_2d, current_price_val, pct_change_val, result,
                    fit_called, fit_exception, forecast_days, forecast_values,
                    confidence_intervals, sarima_model, future_df,
                    last_pred_price, pred_change_val, confidence_width,
                    confidence_level, messages >>

\* the decomposition guard asking for one period only
TooShortToDecompose_OnePeriod(s) == Len(s) < 30

\* the guard of the decomposition section
TooShortToDecompose(s) == Len(s) < MinDecompositionLen

\* try: warn when too short, else seasonal_decompose and plot;
\* except Exception: st.error.  `raises` is what the library call does.
Decompose(raises) ==
    /\ pc = "decompose"
    /\ UNCHANGED unhandled
    /\ IF TooShortToDecompose(close_series)
       THEN /\ raises = FALSE
            /\ result' = "skipped"
            /\ messages' = Append(messages,
                   Msg("warning", "decomposition_short",
                       MinDecompositionLen, Len(close_series), "none"))
       ELSE IF raises
       THEN /\ result' = "failed"
            /\ messages' = Append(messages,
                   Msg("error", "decomposition_failed", 0, 0, "Exception"))
       ELSE /\ result' = "computed"
            /\ UNCHANGED messages
    /\ pc' = "forecast_guard"
    /\ UNCHANGED << data, close_2d, current_price_val, pct_change_val,
                    close_series, fit_called, fit_exception, forecast_days,
                    forecast_values, confidence_intervals, sarima_model,
                    future_df, last_pred_price, pred_change_val,
                    confidence_width, confidence_level >>

\* the guard of the prediction section: it counts the rows of the table
TooShortToForecast == Len(data.Date) < MinForecastRows

ForecastGuard ==
    /\ pc = "forecast_guard"
    /\ UNCHANGED unhandled
    /\ IF TooShortToForecast
       THEN /\ messages' = Append(messages,
                   Msg("error", "forecast_short", MinForecastRows, 0, "none"))
            /\ pc' = "success"
       ELSE /\ UNCHANGED messages
            /\ pc' = "fit"
    /\ UNCHANGED << data, close_2d, current_price_val, pct_change_val,
                    close_series, result, fit_called, fit_exception,
                    forecast_days, forecast_values, confidence_intervals,
                    sarima_model, future_df, last_pred_price, pred_change_val,
                    confidence_width, confidence_level >>

\* ------------------------------------------------------------------------
\* fit_sarima_model(series, forecast_days)
\* ------------------------------------------------------------------------

\* SARIMAX cannot be fitted to a series without observations: on an empty
\* series the try block always raises.
OutcomesFor(series) ==
    IF Len(series) = 0 THEN { o \in FitOutcomes : o.raised } ELSE FitOutcomes

\* forecast.predicted_mean
PrimaryForecast(fc, days) ==
    [i \in 1..days |-> Num(fc.last - (days - i) * fc.slope)]

\* forecast.conf_int(): column 0 is the lower, column 1 the upper bound
PrimaryIntervals(fc, days) ==
    [lower |-> [i \in 1..days |->
                   Num(fc.last - (days - i) * fc.slope - fc.half)],
     upper |-> [i \in 1..days |->
                   Num(fc.last - (days - i) * fc.slope + fc.half)]]

\* the fallback with the average taken over the whole series
FallbackForecast_WholeMean(series, days) == Repeat(SeriesMean(series), days)

\* pd.Series([series[-10:].mean()] * forecast_days)
FallbackForecast(series, days) ==
    Repeat(SeriesMean(LastK(series, FallbackWindow)), days)

\* {'lower': forecast_values * 0.95, 'upper': forecast_values * 1.05}
FallbackIntervals(fv) ==
    [lower |-> [i \in DOMAIN fv |-> FMul(fv[i], Rat(95, 100))],
     upper |-> [i \in DOMAIN fv |-> FMul(fv[i], Rat(105, 100))]]

\* the fallback handing back a model handle
FallbackModel_Stale == "fitted_model"

\* the third value returned on the except path
FallbackModel == "None"

\* st.warning(f"SARIMA model failed with error: {e}. Using fallback method.")
FallbackWarning(e) == Msg("warning", "sarima_failed", 0, 0, e)

fit_sarima_model(outcome) ==
    /\ pc = "fit"
    /\ UNCHANGED unhandled
    /\ outcome \in OutcomesFor(close_series)
    /\ fit_called' = TRUE
    /\ fit_exception' = outcome.e
    /\ IF outcome.raised
       THEN /\ messages' = Append(messages, FallbackWarning(outcome.e))
            /\ forecast_values' = FallbackForecast(close_series, forecast_days)
            /\ confidence_intervals' =
                   FallbackIntervals(FallbackForecast(close_series, forecast_days))
            /\ sarima_model' = FallbackModel
       ELSE /\ UNCHANGED messages
            /\ forecast_values' = PrimaryForecast(outcome.fc, forecast_days)
            /\ confidence_intervals' = PrimaryIntervals(outcome.fc, forecast_days)
            /\ sarima_model' = "fitted_model"
    /\ pc' = "future_df"
    /\ UNCHANGED << data, close_2d, current_price_val, pct_change_val,
                    close_series, result, forecast_days, future_df,
                    last_pred_price, pred_change_val, confidence_width,
                    confidence_level >>

\* ------------------------------------------------------------------------
\* The prediction section after the fit
\* ------------------------------------------------------------------------

\* pd.date_range(last_date + timedelta(days=1), periods=30)
FutureDates(last_date) == [i \in 1..ForecastDays |-> last_date + i]

\* future_df = pd.DataFrame({...}): the columns must have one length
BuildFuture ==
    /\ pc = "future_df"
    /\ LET last_date == data.Date[Len(data.Date)]
           future_dates == FutureDates(last_date)
       IN  IF Len(forecast_values) = Len(future_dates)
              /\ Len(confidence_intervals.lower) = Len(future_dates)
           THEN /\ future_df' = [Date |-> future_dates,
                                 Predicted_Close |-> forecast_values,
                                 Lower_CI |-> confidence_intervals.lower,
                                 Upper_CI |-> confidence_intervals.upper]
                /\ pc' = "summary"
                /\ UNCHANGED unhandled
           ELSE /\ UNCHANGED future_df
                /\ pc' = "crashed"
                /\ unhandled' = "ValueError"
    /\ UNCHANGED << data, close_2d, current_price_val, pct_change_val,
                    close_series, result, fit_called, fit_exception,
                    forecast_days, forecast_values, confidence_intervals,
                    sarima_model, last_pred_price, pred_change_val,
                    confidence_width, confidence_level, messages >>

\* the price the percent change of the summary is taken against
ReferencePrice == current_price_val

\* ((last_pred_price - current_price_val) / current_price_val) * 100 on Python
\* floats: a zero divisor raises ZeroDivisionError
PercentChangeRaises(ref) == IsZero(ref)

PercentChange(pred, ref) == FMul(FDiv(FSub(pred, ref), ref), Num(100))

\* (upper - lower) / last_pred_price * 100 on numpy floats: never raises
ConfidenceWidth(upper, lower, pred) ==
    FMul(FDiv(FSub(upper, lower), pred), Num(100))

ConfidenceLevel(width) ==
    IF FLt(width, Num(HighWidth)) THEN "High"
    ELSE IF FLt(width, Num(MediumWidth)) THEN "Medium"
    ELSE "Low"

Summary ==
    /\ pc = "summary"
    /\ LET n == Len(future_df.Predicted_Close)
           pred == future_df.Predicted_Close[n]
           width == ConfidenceWidth(future_df.Upper_CI[n], future_df.Lower_CI[n], pred)
       IN  /\ last_pred_price' = pred
           /\ IF PercentChangeRaises(ReferencePrice)
              THEN /\ pc' = "crashed"
                   /\ unhandled' = "ZeroDivisionError"
                   /\ UNCHANGED << pred_change_val, confidence_width,
                                   confidence_level >>
              ELSE /\ pred_change_val' = PercentChange(pred, ReferencePrice)
                   /\ confidence_width' = width
                   /\ confidence_level' = ConfidenceLevel(width)
                   /\ pc' = "success"
                   /\ UNCHANGED unhandled
    /\ UNCHANGED << data, close_2d, current_price_val, pct_change_val,
                    close_series, result, fit_called, fit_exception,
                    forecast_days, forecast_values, confidence_intervals,
                    sarima_model, future_df, messages >>

\* the success box that closes the else branch
Success ==
    /\ pc = "success"
    /\ UNCHANGED unhandled
    /\ messages' = Append(messages,
           Msg("success", "analysis_completed", 0, Len(data.Date), "none"))
    /\ pc' = "footer"
    /\ UNCHANGED << data, close_2d, current_price_val, pct_change_val,
                    close_series, result, fit_called, fit_exception,
                    forecast_days, forecast_values, confidence_intervals,
                    sarima_model, future_df, last_pred_price, pred_change_val,
                    confidence_width, confidence_level >>

Footer ==
    /\ pc = "footer"
    /\ UNCHANGED unhandled
    /\ pc' = "done"
    /\ UNCHANGED << data, close_2d, current_price_val, pct_change_val,
                    close_series, result, fit_called, fit_exception,
                    forecast_days, forecast_values, confidence_intervals,
                    sarima_model, future_df, last_pred_price, pred_change_val,
                    confidence_width, confidence_level, messages >>

Next ==
    \/ \E close \in CloseColumns, frame \in BOOLEAN : Fetch(close, frame)
    \/ NoData
    \/ Metrics
    \/ Sanitize
    \/ Shift
    \/ \E raises \in BOOLEAN : Decompose(raises)
    \/ ForecastGuard
    \/ \E outcome \in FitOutcomes : fit_sarima_model(outcome)
    \/ BuildFuture
    \/ Summary
    \/ Success
    \/ Footer

Spec == Init /\ [][Next]_vars

\* ------------------------------------------------------------------------
\* fit_sarima_model on its own: any series, any horizon
\* ------------------------------------------------------------------------

FitInit ==
    /\ pc = "fit"
    /\ data = NoTable
    /\ close_2d = FALSE
    /\ close_series \in FitSeries
    /\ forecast_days \in Horizons
    /\ Unassigned

FitNext == \E outcome \in FitOutcomes : fit_sarima_model(outcome)

FitSpec == FitInit /\ [][FitNext]_vars

\* ------------------------------------------------------------------------
\* Properties
\* ------------------------------------------------------------------------

\* a message of this level and kind was shown
Shown(level, msg) ==
    \E i \in 1..Len(messages) :
        messages[i].level = level /\ messages[i].msg = msg

\* the table was not empty and close_series holds the NaN-dropped Close column
Sanitized ==
    /\ Len(data.Close) > 0
    /\ pc \notin {"fetch", "check_empty", "sanitize"}
    /\ unhandled # "AttributeError"

\* the run has produced a forecast table
ForecastProduced == future_df # NoFrame

\* C1: whenever the sanitized series has fewer than 30 points,
\* fit_sarima_model is never called, no forecast is produced and, once the
\* prediction section is over, the insufficient-data error has been shown --
\* also when the raw table has 30 or more rows.
C1_ForecastNeedsThirtyPoints ==
    (Sanitized /\ Len(close_series) < 30) =>
        /\ ~fit_called
        /\ ~ForecastProduced
        /\ (pc \in {"success", "footer", "done"} => Shown("error", "forecast_short"))

\* C2: no run ends in an unhandled exception, whatever the table and
\* whatever the model fit does.
C2_RunNeverCrashes == pc # "crashed" /\ unhandled = "none"

\* C3: when a non-empty table loses every point to dropna, neither the
\* decomposition nor the forecast runs on the empty series and no forecast
\* is produced.
C3_EmptySeriesHalts ==
    (Sanitized /\ Len(close_series) = 0) =>
        /\ result \notin {"computed", "failed"}
        /\ ~fit_called
        /\ ~ForecastProduced

\* sum of the numerators s[lo].n .. s[hi].n of a series of whole numbers
RECURSIVE IntSum(_, _, _)
IntSum(s, lo, hi) == IF lo > hi THEN 0 ELSE s[hi].n + IntSum(s, lo, hi - 1)

\* C4: on the fallback path the point forecast has forecast_days entries, each
\* the mean of the (at most) 10 last observations (NaN when there is none),
\* and at every step lower = forecast * 95/100 and upper = forecast * 105/100.
C4_FallbackIsTrailingMean ==
    (fit_called /\ fit_exception # "none") =>
        LET s == close_series
            lo == IF Len(s) > 10 THEN Len(s) - 9 ELSE 1
            k == Len(s) - lo + 1
            total == IntSum(s, lo, Len(s))
        IN  /\ Len(forecast_values) = forecast_days
            /\ Len(confidence_intervals.lower) = forecast_days
            /\ Len(confidence_intervals.upper) = forecast_days
            /\ \A i \in 1..forecast_days :
                 LET f == forecast_values[i]
                     l == confidence_intervals.lower[i]
                     u == confidence_intervals.upper[i]
                 IN  IF k = 0
                     THEN IsNaN(f) /\ IsNaN(l) /\ IsNaN(u)
                     ELSE /\ f.d > 0 /\ l.d > 0 /\ u.d > 0
                          /\ f.n * k = total * f.d
                          /\ l.n * f.d * 100 = 95 * f.n * l.d
                          /\ u.n * f.d * 100 = 105 * f.n * u.d

\* the fallback ran for the script's horizon on a series longer than the
\* window whose last two observations differ
C4_Witness ==
    /\ fit_called
    /\ fit_exception # "none"
    /\ forecast_days = ForecastDays
    /\ Len(close_series) > 10
    /\ close_series[Len(close_series)] # close_series[Len(close_series) - 1]
    /\ Len(forecast_values) = ForecastDays

\* C5: every forecast table has 30 dates, predictions, lower and upper bounds,
\* and lower[i] <= predicted[i] <= upper[i] at every step.
C5_ForecastWellFormed ==
    ForecastProduced =>
        /\ Len(future_df.Date) = 30
        /\ Len(future_df.Predicted_Close) = 30
        /\ Len(future_df.Lower_CI) = 30
        /\ Len(future_df.Upper_CI) = 30
        /\ \A i \in 1..30 :
             /\ FLe(future_df.Lower_CI[i], future_df.Predicted_Close[i])
             /\ FLe(future_df.Predicted_Close[i], future_df.Upper_CI[i])

\* C6: a series shorter than 60 is never decomposed and the warning carries
\* 60 and the actual length; and whatever the decomposition section did
\* (skipped, raised, computed), a series of at least 30 points has its
\* forecast produced once the prediction section is over.
C6_SectionsIndependent ==
    /\ (Sanitized /\ result # "unset" /\ Len(close_series) < 60) =>
          /\ result = "skipped"
          /\ \E i \in 1..Len(messages) :
                /\ messages[i].level = "warning"
                /\ messages[i].msg = "decomposition_short"
                /\ messages[i].need = 60
                /\ messages[i].got = Len(close_series)
    /\ (Sanitized /\ result = "computed") => Len(close_series) >= 60
    /\ (Sanitized /\ Len(close_series) >= 30
           /\ pc \in {"summary", "success", "footer", "done", "crashed"}) =>
          fit_called /\ ForecastProduced

\* a 45-point series: decomposition skipped, forecast produced
C6_Witness ==
    /\ pc = "done"
    /\ Len(close_series) = 45
    /\ result = "skipped"
    /\ ForecastProduced

\* C7: after an empty download only the no-data error and the footer follow:
\* no sanitization, decomposition, forecast or success message.
C7_EmptyTableIsTerminal ==
    (pc # "fetch" /\ Len(data.Close) = 0) =>
        /\ pc \in {"check_empty", "footer", "done"}
        /\ close_series = << >>
        /\ result = "unset"
        /\ ~fit_called
        /\ ~ForecastProduced
        /\ ~Shown("success", "analysis_completed")
        /\ (pc \in {"footer", "done"} =>
               messages = << Msg("error", "no_data", 0, 0, "none") >>)

\* a run on an empty download reached its end
C7_Witness ==
    /\ pc = "done"
    /\ Len(data.Close) = 0
    /\ Shown("error", "no_data")

\* C8: the fallback is taken exactly when the try block raised; then, and only
\* then, the warning naming the exception is shown and the model handle is
\* None (the fitted model otherwise); the exception never leaves
\* fit_sarima_model, and the run goes on to build the forecast table.
C8_FallbackIffFitRaises ==
    fit_called =>
        /\ (fit_exception # "none") <=> (sarima_model = "None")
        /\ (fit_exception # "none") <=> Shown("warning", "sarima_failed")
        /\ \A i \in 1..Len(messages) :
              messages[i].msg = "sarima_failed" => messages[i].e = fit_exception
        /\ (fit_exception = "none") <=> (sarima_model = "fitted_model")
        /\ unhandled \notin {"LinAlgError"}
        /\ (pc = "future_df" \/ ForecastProduced)

\* a run whose fit raised went through the fallback to its end
C8_Witness ==
    /\ pc = "done"
    /\ fit_called
    /\ fit_exception # "none"
    /\ sarima_model = "None"
    /\ ForecastProduced

\* what the shift step must do to a series s of whole numbers, giving t
ShiftRelation(s, t) ==
    /\ Len(t) = Len(s)
    /\ IF \E i \in 1..Len(s) : s[i].n <= 0
       THEN /\ \A i \in 1..Len(t) : t[i].d = 1 /\ t[i].n > 0
            /\ \E i \in 1..Len(t) : t[i].n = 1
            /\ \A i, j \in 1..Len(s) :
                  /\ t[i].n - t[j].n = s[i].n - s[j].n
                  /\ (s[i].n <= s[j].n) <=> (t[i].n <= t[j].n)
            /\ \A i, j \in 1..Len(s) : t[i].n - s[i].n >= 1 - s[j].n
       ELSE t = s

\* C9: the shift step makes a series with a value <= 0 strictly positive with
\* minimum 1, moves every value by the same amount 1 - min (differences and
\* order kept), and leaves an all-positive series unchanged.
C9_PositivityShift ==
    [][pc = "shift" => ShiftRelation(close_series, close_series')]_vars

\* the shift has been applied to a series with a non-positive value and two
\* different values
C9_Witness ==
    /\ pc = "decompose"
    /\ \E i \in 1..Len(data.Close) :
          ~IsNaN(data.Close[i]) /\ data.Close[i].n <= 0
    /\ \E i, j \in 1..Len(close_series) : close_series[i] # close_series[j]

\* C10: in every run that produces a forecast, the price the percent change is
\* taken against is the last value of the series the forecast was fitted to.
C10_ReferenceIsLastOfSeries ==
    ForecastProduced =>
        /\ Len(close_series) > 0
        /\ ReferencePrice = close_series[Len(close_series)]

====
